---------------------------- MODULE Spec2Model ----------------------------
(***************************************************************************)
(* Data-dependence analysis of the Ghidra plug-ins Lab3_Plugin.py and      *)
(* Lab4_networkx.py: def/use classification of one instruction, reverse    *)
(* (Lab3) and forward simple-path (Lab4) enumeration of CFG paths, the     *)
(* per-path reaching-definition tracker DDStorage, the aggregation of the  *)
(* per-path results, and the per-function batch loop.                      *)
(*                                                                         *)
(* An instruction is a record [mnem, ops]; its address is its index in the *)
(* function's listing.  An operand descriptor carries what the code reads  *)
(* from Ghidra: getRegister(i) (reg, NoReg for None), the flags of         *)
(* getOperandRefType(i) and getDefaultOperandRepresentationList(i) (toks). *)
(***************************************************************************)
EXTENDS Naturals, Sequences, FiniteSets, TLC

----------------------------------------------------------------------------
(* Small helpers for Python lists                                          *)

NoReg == "None"

\* The 'START' sentinel of a path and of a dependency list.  Addresses are
\* the positive naturals, so 0 stands for the string 'START'.
START == 0

Range(s) == {s[i] : i \in DOMAIN s}

\* no element occurs twice in list l
NoDuplicates(l) == \A i, j \in DOMAIN l : l[i] = l[j] => i = j

\* "if x not in l: l.append(x)"
AppendIfAbsent(l, x) == IF x \in Range(l) THEN l ELSE Append(l, x)

\* ASCII order of the storage-location keys that occur in the catalogue:
\* upper-case register names, then '[' keys, then lower-case eflags.
LocOrder ==
    << "EAX", "EBP", "ECX", "EDI", "ESP", "[0x404000]", "[EAX]", "[EBP]",
       "[EDI]", "[ESP]", "eflags" >>

Rank(x) == CHOOSE i \in DOMAIN LocOrder : LocOrder[i] = x

RECURSIVE InsertSorted(_, _)
InsertSorted(l, x) ==
    IF l = << >> THEN << x >>
    ELSE IF Rank(x) < Rank(Head(l)) THEN << x >> \o l
    ELSE << Head(l) >> \o InsertSorted(Tail(l), x)

\* Python's sorted(l) on lists of location keys
RECURSIVE Sorted(_)
Sorted(l) == IF l = << >> THEN << >> ELSE InsertSorted(Sorted(Tail(l)), Head(l))

----------------------------------------------------------------------------
(* Operand descriptors                                                     *)

Tok(s, isReg, hex, alpha) == [s |-> s, isReg |-> isReg, hex |-> hex, alpha |-> alpha]

\* tokens of getDefaultOperandRepresentationList: a Register object, a
\* bracket character, a scalar.  hex: every character is in [0-9a-fx]
\* (case ignored); alpha: every character is a letter.
RegTok(r) == Tok(r, TRUE, r \in {"EAX", "ECX"}, TRUE)
LBr == Tok("[", FALSE, FALSE, FALSE)
RBr == Tok("]", FALSE, FALSE, FALSE)
ScalarTok(s) == Tok(s, FALSE, TRUE, FALSE)

Operand(reg, read, write, cond, flow, toks) ==
    [reg |-> reg, read |-> read, write |-> write, cond |-> cond,
     flow |-> flow, toks |-> toks]

RegRead(r) == Operand(r, TRUE, FALSE, FALSE, FALSE, << RegTok(r) >>)
RegWrite(r) == Operand(r, FALSE, TRUE, FALSE, FALSE, << RegTok(r) >>)
RegReadWrite(r) == Operand(r, TRUE, TRUE, FALSE, FALSE, << RegTok(r) >>)
Scalar(s) == Operand(NoReg, FALSE, FALSE, FALSE, FALSE, << ScalarTok(s) >>)
MemRead(r) == Operand(NoReg, TRUE, FALSE, FALSE, FALSE, << LBr, RegTok(r), RBr >>)
MemWrite(r) == Operand(NoReg, FALSE, TRUE, FALSE, FALSE, << LBr, RegTok(r), RBr >>)
CodeTarget(s) == Operand(NoReg, FALSE, FALSE, TRUE, TRUE, << ScalarTok(s) >>)

\* isJump/isCond: getFlowType().isJump()/isConditional(); flows: getFlows()
Instr(mnem, ops) ==
    [mnem |-> mnem, ops |-> ops, isJump |-> FALSE, isCond |-> FALSE, flows |-> << >>]

JumpInstr(mnem, ops, isCond, target) ==
    [mnem |-> mnem, ops |-> ops, isJump |-> TRUE, isCond |-> isCond,
     flows |-> << target >>]

\* getDefaultOperandRepresentation(i): the operand's text
RECURSIVE JoinToks(_)
JoinToks(toks) == IF toks = << >> THEN "" ELSE Head(toks).s \o JoinToks(Tail(toks))

OperandRepresentation(ins, i) ==
    IF i \in DOMAIN ins.ops THEN JoinToks(ins.ops[i].toks) ELSE "<UNSUPPORTED>"

OperandToks(ins, i) == IF i \in DOMAIN ins.ops THEN ins.ops[i].toks ELSE << >>

----------------------------------------------------------------------------
(* operandRegisterHelper                                                   *)

\* One element of refListing in the memory-reference loop, statement by
\* statement.  st holds the loop's locals and the defs/uses lists.

\* if isPart: thisDynamic += str(element)
MemAppendPart(st, el) ==
    IF st.isPart THEN [st EXCEPT !.thisDynamic = @ \o el.s] ELSE st

\* if element == '[': isPart = True; thisDynamic += str(element)
MemOpenBracket(st, el) ==
    IF el.s = "[" /\ ~el.isReg
    THEN [st EXCEPT !.isPart = TRUE, !.thisDynamic = @ \o el.s]
    ELSE st

\* if element == ']': isPart = False; eor = True
MemCloseBracket(st, el) ==
    IF el.s = "]" /\ ~el.isReg THEN [st EXCEPT !.isPart = FALSE, !.eor = TRUE] ELSE st

\* if isinstance(element, Register): ... if opType.isRead(): ...
MemRegisterRead(st, el, op) ==
    IF el.isReg /\ op.read
    THEN [st EXCEPT !.isInstance = TRUE, !.isRead = TRUE,
                    !.uses = AppendIfAbsent(@, el.s)]
    ELSE IF el.isReg THEN [st EXCEPT !.isInstance = TRUE]
    ELSE st

\* ... if opType.isWrite(): ...  regWriteToDefs is the one place where the
\* two files differ: Lab3 appends the address register to defs, Lab4
\* appends it to uses.
MemRegisterWrite(st, el, op, regWriteToDefs) ==
    IF el.isReg /\ op.write
    THEN IF regWriteToDefs
         THEN [st EXCEPT !.isWrite = TRUE, !.defs = AppendIfAbsent(@, el.s)]
         ELSE [st EXCEPT !.isWrite = TRUE, !.uses = AppendIfAbsent(@, el.s)]
    ELSE st

\* if isInstance and eor: the bracketed text goes to uses if read
MemCellUse(st) ==
    IF st.isInstance /\ st.eor /\ st.isRead
    THEN [st EXCEPT !.uses = AppendIfAbsent(@, st.thisDynamic)]
    ELSE st

\* ... and to defs if written
MemCellDef(st) ==
    IF st.isInstance /\ st.eor /\ st.isWrite
    THEN [st EXCEPT !.defs = AppendIfAbsent(@, st.thisDynamic)]
    ELSE st

MemElement(st, el, op, regWriteToDefs) ==
    MemCellDef(MemCellUse(MemRegisterWrite(MemRegisterRead(
        MemCloseBracket(MemOpenBracket(MemAppendPart(st, el), el), el),
        el, op), el, op, regWriteToDefs)))

RECURSIVE MemLoop(_, _, _, _)
MemLoop(st, toks, op, regWriteToDefs) ==
    IF toks = << >> THEN st
    ELSE MemLoop(MemElement(st, Head(toks), op, regWriteToDefs), Tail(toks), op,
                 regWriteToDefs)

\* One operand: the register branch or the memory-reference branch.
OperandStep(du, op, regWriteToDefs) ==
    IF op.reg # NoReg
    THEN LET u1 == IF op.cond /\ op.flow THEN AppendIfAbsent(du.uses, "eflags")
                   ELSE du.uses
             u2 == IF op.read THEN AppendIfAbsent(u1, op.reg) ELSE u1
             d2 == IF op.write THEN AppendIfAbsent(du.defs, op.reg) ELSE du.defs
         IN  [defs |-> d2, uses |-> u2]
    ELSE LET st0 == [thisDynamic |-> "", isPart |-> FALSE, isInstance |-> FALSE,
                     isRead |-> FALSE, isWrite |-> FALSE, eor |-> FALSE,
                     defs |-> du.defs, uses |-> du.uses]
             st == MemLoop(st0, op.toks, op, regWriteToDefs)
         IN  [defs |-> st.defs, uses |-> st.uses]

RECURSIVE OperandLoop(_, _, _)
OperandLoop(du, ops, regWriteToDefs) ==
    IF ops = << >> THEN du
    ELSE OperandLoop(OperandStep(du, Head(ops), regWriteToDefs), Tail(ops),
                     regWriteToDefs)

Lab3_operandRegisterHelper(ins) ==
    OperandLoop([defs |-> << >>, uses |-> << >>], ins.ops, TRUE)

Lab4_operandRegisterHelper(ins) ==
    OperandLoop([defs |-> << >>, uses |-> << >>], ins.ops, FALSE)

----------------------------------------------------------------------------
(* analyze_instruction                                                     *)

RECURSIVE AppendAll(_, _)
AppendAll(l, xs) == IF xs = << >> THEN l ELSE AppendAll(Append(l, Head(xs)), Tail(xs))

RECURSIVE AppendAllIfAbsent(_, _)
AppendAllIfAbsent(l, xs) ==
    IF xs = << >> THEN l ELSE AppendAllIfAbsent(AppendIfAbsent(l, Head(xs)), Tail(xs))

IndexOf(toks, s, from) ==
    LET hits == {i \in DOMAIN toks : i >= from /\ toks[i].s = s /\ ~toks[i].isReg}
    IN  IF hits = {} THEN 0 ELSE CHOOSE i \in hits : \A j \in hits : i <= j

\* re.search(r'\[([0-9a-fx]+)\]', repr, re.IGNORECASE): a '[' directly
\* followed by one run of hex characters and a ']'
CallTarget(ins) ==
    LET toks == OperandToks(ins, 1)
        hits == {i \in DOMAIN toks : /\ i + 2 \in DOMAIN toks
                                     /\ toks[i].s = "[" /\ toks[i + 1].hex
                                     /\ toks[i + 2].s = "]"}
    IN  IF hits # {}
        THEN LET i == CHOOSE k \in hits : \A j \in hits : k <= j
             IN  "[" \o toks[i + 1].s \o "]"
        ELSE OperandRepresentation(ins, 1)

\* re.search(r'\[(.*?)\]', sourceOperand) of LEA: 0 when there is no match
LeaOpen(ins) == IndexOf(OperandToks(ins, 2), "[", 1)
LeaClose(ins) == IF LeaOpen(ins) = 0 THEN 0
                 ELSE IndexOf(OperandToks(ins, 2), "]", LeaOpen(ins) + 1)

\* re.findall(r'\b([a-zA-Z]+)\b', group(1)), in token order
LeaRegisters(ins) ==
    LET toks == OperandToks(ins, 2)
    IN  SelectSeq(SubSeq(toks, LeaOpen(ins) + 1, LeaClose(ins) - 1),
                  LAMBDA t : t.alpha)

RECURSIVE TokStrings(_)
TokStrings(toks) ==
    IF toks = << >> THEN << >> ELSE << Head(toks).s >> \o TokStrings(Tail(toks))

EflagsDefMnemonics ==
    {"ADD", "SUB", "AND", "OR", "XOR", "CMP", "IMUL", "MUL", "INC", "DEC",
     "SAR", "SAL", "SHR", "SHL", "TEST"}

EflagsUseMnemonics ==
    {"JA", "JZ", "JBE", "JC", "JG", "JL", "JLE", "JNC", "JNZ", "SETNZ"}

OperandOnlyMnemonics == {"JMP", "MOV", "MOVSX", "MOVZX"}

RecognizedMnemonics ==
    EflagsDefMnemonics \cup EflagsUseMnemonics \cup OperandOnlyMnemonics
        \cup {"CALL", "LEA", "LEAVE", "POP", "PUSH", "RET", "STOSD.REP"}

\* The if/elif chain on the mnemonic, applied to the operand-derived lists.
\* kind: "ok", "None" (the bare return of the else branch) or "raise"
\* (memoryRefMatch is None and .group(1) raises AttributeError).
\* retUsesStackCell: Lab3's RET branch adds '[ESP]' to uses, Lab4's does not.
MnemonicRules(ins, du, retUsesStackCell) ==
    LET m == ins.mnem
        ok(d, u) == [kind |-> "ok", defs |-> d, uses |-> u]
    IN  IF m = "CALL" THEN ok(du.defs, Append(du.uses, CallTarget(ins)))
        ELSE IF m \in EflagsDefMnemonics
        THEN ok(AppendIfAbsent(du.defs, "eflags"), du.uses)
        ELSE IF m \in EflagsUseMnemonics
        THEN ok(du.defs, AppendIfAbsent(du.uses, "eflags"))
        ELSE IF m \in OperandOnlyMnemonics THEN ok(du.defs, du.uses)
        ELSE IF m = "LEA"
        THEN LET destReg == IF 1 \in DOMAIN ins.ops THEN ins.ops[1].reg ELSE NoReg
                 d == IF destReg # NoReg THEN AppendIfAbsent(du.defs, destReg)
                      ELSE du.defs
             IN  IF LeaClose(ins) = 0
                 THEN [kind |-> "raise", defs |-> d, uses |-> du.uses]
                 ELSE ok(d, AppendAllIfAbsent(du.uses, TokStrings(LeaRegisters(ins))))
        ELSE IF m = "LEAVE"
        THEN ok(AppendAll(du.defs, << "EBP", "ESP" >>),
                AppendAll(du.uses, << "EBP", "[EBP]" >>))
        ELSE IF m = "POP"
        THEN ok(AppendIfAbsent(du.defs, "ESP"),
                AppendAllIfAbsent(du.uses, << "[ESP]", "ESP" >>))
        ELSE IF m = "PUSH"
        THEN ok(AppendAllIfAbsent(du.defs, << "ESP", "[ESP]" >>),
                AppendIfAbsent(du.uses, "ESP"))
        ELSE IF m = "RET"
        THEN ok(AppendIfAbsent(du.defs, "ESP"),
                IF retUsesStackCell
                THEN AppendAllIfAbsent(du.uses, << "ESP", "[ESP]" >>)
                ELSE AppendIfAbsent(du.uses, "ESP"))
        ELSE IF m = "STOSD.REP"
        THEN ok(<< "[EDI]", "EDI" >>, AppendAll(du.uses, << "EAX", "EDI", "eflags" >>))
        ELSE [kind |-> "None", defs |-> du.defs, uses |-> du.uses]

RECURSIVE JoinComma(_)
JoinComma(l) ==
    IF l = << >> THEN ""
    ELSE IF Len(l) = 1 THEN Head(l)
    ELSE Head(l) \o ", " \o JoinComma(Tail(l))

\* "D: {} U: {}".format(", ".join(sorted(defs)), ", ".join(sorted(uses)))
DefUseLabel(defs, uses) ==
    "D: " \o JoinComma(Sorted(defs)) \o " U: " \o JoinComma(Sorted(uses))

\* Lab3: returns (def_use_label, defs, uses), or None for an unrecognized
\* mnemonic.
Lab3_analyze_instruction(ins) ==
    LET r == MnemonicRules(ins, Lab3_operandRegisterHelper(ins), TRUE)
    IN  [kind |-> r.kind, defs |-> r.defs, uses |-> r.uses,
         label |-> IF r.kind = "ok" THEN DefUseLabel(r.defs, r.uses) ELSE "None"]

\* Lab4: returns def_use_label and records instruction_def_use[instruction],
\* or returns None (recording nothing) for an unrecognized mnemonic.
Lab4_analyze_instruction(ins) ==
    LET r == MnemonicRules(ins, Lab4_operandRegisterHelper(ins), FALSE)
    IN  [kind |-> r.kind, defs |-> r.defs, uses |-> r.uses,
         label |-> IF r.kind = "ok" THEN DefUseLabel(r.defs, r.uses) ELSE "None"]

----------------------------------------------------------------------------
(* The functions under analysis                                            *)

MOV_EAX_1 == Instr("MOV", << RegWrite("EAX"), Scalar("0x1") >>)
MOV_ECX_2 == Instr("MOV", << RegWrite("ECX"), Scalar("0x2") >>)
PUSH_ECX == Instr("PUSH", << RegRead("ECX") >>)
PUSH_EAX == Instr("PUSH", << RegRead("EAX") >>)
POP_ECX == Instr("POP", << RegWrite("ECX") >>)
POP_EAX == Instr("POP", << RegWrite("EAX") >>)
RET == Instr("RET", << >>)
\* NEG is not in the mnemonic table of analyze_instruction
NEG_EAX == Instr("NEG", << RegReadWrite("EAX") >>)


\* MOV [EAX],ECX and MOV ECX,[EAX]: a register-indexed memory operand
MOV_MEM_ECX == Instr("MOV", << MemWrite("EAX"), RegRead("ECX") >>)
MOV_ECX_MEM == Instr("MOV", << RegWrite("ECX"), MemRead("EAX") >>)
\* MOV [0x404000],EAX and MOV EAX,[0x404000]: an absolute memory operand,
\* whose representation list holds the brackets and a scalar, no Register
MOV_ABS_EAX ==
    Instr("MOV", << Operand(NoReg, FALSE, TRUE, FALSE, FALSE,
                            << LBr, ScalarTok("0x404000"), RBr >>),
                    RegRead("EAX") >>)
MOV_EAX_ABS ==
    Instr("MOV", << RegWrite("EAX"),
                    Operand(NoReg, TRUE, FALSE, FALSE, FALSE,
                            << LBr, ScalarTok("0x404000"), RBr >>) >>)

\* CALL dword ptr [EAX], LEAVE and STOSD.REP ES:[EDI]: the mnemonics whose
\* branch appends its locations without looking at the lists
CALL_MEM_EAX == Instr("CALL", << MemRead("EAX") >>)
LEAVE == Instr("LEAVE", << >>)
STOSD_REP == Instr("STOSD.REP", << MemWrite("EDI") >>)

Catalogue == {MOV_EAX_1, PUSH_EAX, POP_EAX, NEG_EAX, RET}

\* the basic blocks of the generic functions
Blocks == {1, 2, 3}

Payload == Catalogue \ {RET}

\* what a basic block holds: one instruction, one instruction and the RET
\* that ends the block, or the RET alone
BlockContents ==
    {<< i >> : i \in Payload} \cup {<< i, RET >> : i \in Payload} \cup {<< RET >>}

\* at most this many CFG edges in a generic function
MaxEdges == 3

\* A function: its name, its listing (address = index), its basic blocks as
\* address ranges in address order (block 1 holds the entry point) and the
\* CFG edges between blocks, as BasicBlockModel supplies them.
Function(name, listing, blocks, edges) ==
    [name |-> name, listing |-> listing, blocks |-> blocks, edges |-> edges]

\* the listing of a function whose blocks hold contents[1], contents[2], ...
RECURSIVE Flatten(_)
Flatten(contents) ==
    IF contents = << >> THEN << >> ELSE Head(contents) \o Flatten(Tail(contents))

\* the address ranges of these blocks, the first one starting at address lo
RECURSIVE BlockRanges(_, _)
BlockRanges(contents, lo) ==
    IF contents = << >> THEN << >>
    ELSE << [min |-> lo, max |-> lo + Len(Head(contents)) - 1] >>
             \o BlockRanges(Tail(contents), lo + Len(Head(contents)))

FunctionOfBlocks(name, contents, edges) ==
    Function(name, Flatten(contents), BlockRanges(contents, 1), edges)

IsRetBlock(listing, blocks, b) ==
    \E a \in blocks[b].min..blocks[b].max : listing[a].mnem = "RET"

\* a block that ends in RET has no destination
EdgeSets(listing, blocks) ==
    {E \in SUBSET {e \in (DOMAIN blocks) \X (DOMAIN blocks) :
                       ~IsRetBlock(listing, blocks, e[1])} :
        Cardinality(E) <= MaxEdges}

\* func is a generic function: three blocks of any contents, any edge set
\* of at most MaxEdges edges
IsGenericFunction(f) ==
    \E c \in [Blocks -> BlockContents] :
        \E E \in EdgeSets(Flatten(c), BlockRanges(c, 1)) :
            f = FunctionOfBlocks("FUN_00401078", c, E)

\* if/else: block 1 branches to the arms 2 and 3, which join in block 4
DiamondEdges == {<< 1, 2 >>, << 1, 3 >>, << 2, 4 >>, << 3, 4 >>}

\* the join block holds an instruction and the RET
IsDiamondFunction(f) ==
    \E l \in [1..4 -> Payload] :
        f = FunctionOfBlocks("FUN_00401078",
                             << << l[1] >>, << l[2] >>, << l[3] >>, << l[4], RET >> >>,
                             DiamondEdges)

\* at most this many instructions before the RET of a straight-line function
MaxStraight == 3

\* straight-line code: one block that holds up to MaxStraight instructions
\* and the RET that ends it
IsStraightFunction(f) ==
    \E n \in 1..MaxStraight :
        \E l \in [1..n -> Catalogue \ {RET}] :
            f = Function("FUN_00401078", l \o << RET >>,
                         << [min |-> 1, max |-> n + 1] >>, {})

\* jumps whose flow is the instruction at address t of the function
JMP_TO(t) == JumpInstr("JMP", << CodeTarget("0x40100" \o ToString(t)) >>, FALSE, t)

JZ_TO(t) == JumpInstr("JZ", << CodeTarget("0x40100" \o ToString(t)) >>, TRUE, t)

\* the block edges of a listing cut into one block per instruction: the
\* flow of a jump, and the fallthrough of everything but JMP and RET
FlowEdges(listing) ==
    {<< a, listing[a].flows[1] >> : a \in {x \in DOMAIN listing : listing[x].isJump}}
        \cup {<< a, a + 1 >> : a \in {x \in DOMAIN listing :
                                         /\ x + 1 \in DOMAIN listing
                                         /\ listing[x].mnem \notin {"JMP", "RET"}}}

\* func is a function of three instructions with jumps inside the function,
\* the last instruction being a return or a jump backwards
IsJumpFunction(f) ==
    \E l \in [1..3 -> {MOV_EAX_1, RET} \cup {JMP_TO(t) : t \in 1..3}
                          \cup {JZ_TO(t) : t \in 1..3}] :
        /\ l[1].mnem # "RET" /\ l[2].mnem # "RET" /\ ~l[3].isCond
        /\ l[3] # MOV_EAX_1
        /\ \E a \in 1..3 : l[a].isJump
        /\ f = Function("FUN_00401078", l,
                        [b \in 1..3 |-> [min |-> b, max |-> b]], FlowEdges(l))

\* func is one block of one or two instructions with a memory operand or
\* an implicit location (or MOV EAX,0x1) and a RET
IsMemoryFunction(f) ==
    \E n \in 1..2 :
        \E l \in [1..n -> {MOV_EAX_1, MOV_MEM_ECX, MOV_ECX_MEM, MOV_ABS_EAX,
                           MOV_EAX_ABS, CALL_MEM_EAX, LEAVE, STOSD_REP}] :
            /\ \E a \in 1..n : l[a] # MOV_EAX_1
            /\ f = Function("FUN_00401078", l \o << RET >>,
                            << [min |-> 1, max |-> n + 1] >>, {})

IsFunction(f) ==
    \/ IsGenericFunction(f) \/ IsDiamondFunction(f) \/ IsStraightFunction(f)
    \/ IsJumpFunction(f) \/ IsMemoryFunction(f)

----------------------------------------------------------------------------
(* DDStorage (the same class in both files)                                *)

\* self.defs = {}
DDStorage_init == [x \in {} |-> START]

DDStorage_has(defs, register) == register \in DOMAIN defs

DDStorage_getAddress(defs, register) == defs[register]

\* a faulty variant: an earlier definition is not overwritten
DDStorage_newDefine_keepFirst(defs, register, address) ==
    [x \in DOMAIN defs \cup {register} |-> IF x \in DOMAIN defs THEN defs[x] ELSE address]

DDStorage_newDefine(defs, register, address) ==
    [x \in DOMAIN defs \cup {register} |-> IF x = register THEN address ELSE defs[x]]

\* for i in uses: the definer's address, or 'START' if it is not yet listed
RECURSIVE ResolveUses(_, _, _)
ResolveUses(storage, uses, dependsOn) ==
    IF uses = << >> THEN dependsOn
    ELSE ResolveUses(storage, Tail(uses),
                     IF DDStorage_has(storage, Head(uses))
                     THEN Append(dependsOn, DDStorage_getAddress(storage, Head(uses)))
                     ELSE AppendIfAbsent(dependsOn, START))

\* for i in defs: self.newDefine(i, addr)
RECURSIVE ApplyDefs(_, _, _)
ApplyDefs(storage, defs, addr) ==
    IF defs = << >> THEN storage
    ELSE ApplyDefs(DDStorage_newDefine(storage, Head(defs), addr), Tail(defs), addr)

\* a faulty variant: the definitions of the instruction are recorded before
\* its uses are resolved
processDataDep_defsFirst(storage, uses, defs, addr) ==
    [dependsOn |-> ResolveUses(ApplyDefs(storage, defs, addr), uses, << >>),
     storage |-> ApplyDefs(storage, defs, addr)]

\* returns dependsOn; storage is the object's state after the call
processDataDep(storage, uses, defs, addr) ==
    [dependsOn |-> ResolveUses(storage, uses, << >>),
     storage |-> ApplyDefs(storage, defs, addr)]

----------------------------------------------------------------------------
(* Lab4: collect_instructions, find_ret_blocks, reverse_traverse_cfg       *)

\* no graph text yet
NoGraph == [name |-> "", nodes |-> << >>, edges |-> << >>]

Addresses(f) == DOMAIN f.listing

RECURSIVE Ascending(_, _)
Ascending(lo, hi) == IF lo > hi THEN << >> ELSE << lo >> \o Ascending(lo + 1, hi)

\* all orders in which a Python set may be listed
RECURSIVE Perms(_)
Perms(S) ==
    IF S = {} THEN {<< >>}
    ELSE UNION {{<< x >> \o p : p \in Perms(S \ {x})} : x \in S}

\* jumps[addr_str] = dst_addr for every jump that has a flow
JumpsOf(f) ==
    [a \in {x \in Addresses(f) : f.listing[x].isJump /\ f.listing[x].flows # << >>}
        |-> f.listing[a].flows[1]]

\* create_dot_graph's edge loop raises KeyError at address_to_node[jumps[addr]]
\* when a jump that is not the last instruction targets an address outside
\* instruction_list
create_dot_graph_raises(f) ==
    \E a \in DOMAIN JumpsOf(f) :
        /\ f.listing[a].mnem # "RET"
        /\ a + 1 \in Addresses(f)
        /\ JumpsOf(f)[a] \notin Addresses(f)

\* conditional_jumps: the jumps recorded whose flow type is conditional
CondJumpsOf(f) == {a \in DOMAIN JumpsOf(f) : f.listing[a].isCond}

\* ret_instructions: the addresses of the RET instructions
RetInstructionsOf(f) == {a \in Addresses(f) : f.listing[a].mnem = "RET"}

\* address_to_node[addr]: the number k of the node nk made for addr
NodeNumber(il, addr) == CHOOSE i \in DOMAIN il : il[i] = addr

\* the edges create_dot_graph writes for the instruction at position i
DefUseEdgesAt(il, jumps, cond, rets, i) ==
    IF il[i] \in rets THEN << >>
    ELSE IF i + 1 <= Len(il)
    THEN IF il[i] \in DOMAIN jumps
         THEN << << i, NodeNumber(il, jumps[il[i]]) >> >>
                  \o (IF il[i] \in cond THEN << << i, i + 1 >> >> ELSE << >>)
         ELSE << << i, i + 1 >> >>
    ELSE << >>

\* for i, addr in enumerate(instruction_list), from position i on
RECURSIVE DefUseEdgesFrom(_, _, _, _, _)
DefUseEdgesFrom(il, jumps, cond, rets, i) ==
    IF i > Len(il) THEN << >>
    ELSE DefUseEdgesAt(il, jumps, cond, rets, i)
             \o DefUseEdgesFrom(il, jumps, cond, rets, i + 1)

\* create_dot_graph (the same function in both files): the nodes n1, n2, ...
\* in the order of instruction_list, labelled with the address and its
\* def/use label, then the edges as pairs of node numbers, in the order
\* they are written
create_dot_graph(f, il, jumps, cond, rets, dui) ==
    [name |-> f.name,
     nodes |-> [i \in DOMAIN il |->
                   [node |-> i, addr |-> il[i],
                    label |-> IF il[i] \in DOMAIN dui THEN dui[il[i]] ELSE ""]],
     edges |-> DefUseEdgesFrom(il, jumps, cond, rets, 1)]

\* The loop over the code blocks and their addresses, then the sort by
\* address and the def/use graph.  instruction_def_use is the global dict the
\* calls of analyze_instruction filled for the recognized mnemonics.
Lab4_collect_instructions(f) ==
    LET an(a) == Lab4_analyze_instruction(f.listing[a])
    IN  [raised |-> \/ \E a \in Addresses(f) : an(a).kind = "raise"
                    \/ create_dot_graph_raises(f),
         instruction_list |-> Ascending(1, Len(f.listing)),
         def_use_info |-> [a \in Addresses(f) |-> an(a).label],
         def_use_graph |->
             IF create_dot_graph_raises(f) THEN NoGraph
             ELSE create_dot_graph(f, Ascending(1, Len(f.listing)), JumpsOf(f),
                                   CondJumpsOf(f), RetInstructionsOf(f),
                                   [a \in Addresses(f) |-> an(a).label]),
         instruction_def_use |->
             [a \in {x \in Addresses(f) : an(x).kind = "ok"} |->
                 [def |-> an(a).defs, use |-> an(a).uses]]]

\* the blocks that hold a RET; the caller gets list(ret_blocks)
find_ret_blocks(f) ==
    {b \in DOMAIN f.blocks : IsRetBlock(f.listing, f.blocks, b)}

\* get_function_entry_block: the block at the function's entry point
EntryBlock(f) == CHOOSE b \in DOMAIN f.blocks : f.blocks[b].min = 1

Last(p) == p[Len(p)]

\* nx.all_simple_paths(cfg, source, target, cutoff), source # target: the
\* paths without a repeated node (at most cutoff edges), extended from p
RECURSIVE SimplePathsFrom(_, _, _, _)
SimplePathsFrom(edges, p, target, cutoff) ==
    IF Last(p) = target THEN {p}
    ELSE IF Len(p) > cutoff THEN {}
    ELSE UNION {SimplePathsFrom(edges, Append(p, e[2]), target, cutoff) :
                   e \in {d \in edges : d[1] = Last(p) /\ d[2] \notin Range(p)}}

\* The paths appended for one return block: [entry] when the entry block is
\* the return block, the simple paths otherwise (cut off at 46 edges for
\* FUN_00401406, at len(cfg) - 1 edges by default).
Lab4_paths_to(f, ret_block) ==
    IF EntryBlock(f) = ret_block THEN {<< EntryBlock(f) >>}
    ELSE SimplePathsFrom(f.edges, << EntryBlock(f) >>, ret_block,
                         IF f.name = "FUN_00401406" THEN 46
                         ELSE Cardinality(DOMAIN f.blocks) - 1)

\* path_to_instructions: the instructions from each block's minimum to its
\* maximum address, block after block
RECURSIVE path_to_instructions(_, _)
path_to_instructions(f, path) ==
    IF path = << >> THEN << >>
    ELSE Ascending(f.blocks[Head(path)].min, f.blocks[Head(path)].max)
             \o path_to_instructions(f, Tail(path))

prepend_START(path) == << START >> \o path

\* The lists reverse_traverse_cfg may return for ret_blocks: per return
\* block, in the order of ret_blocks, its paths in the order the graph
\* yields them (any order here), as instruction lists headed by START.
RECURSIVE Lab4_reverse_traverse_cfg(_, _)
Lab4_reverse_traverse_cfg(f, rets) ==
    IF rets = << >> THEN {<< >>}
    ELSE {[i \in DOMAIN ps |-> prepend_START(path_to_instructions(f, ps[i]))] \o rest :
              ps \in Perms(Lab4_paths_to(f, Head(rets))),
              rest \in Lab4_reverse_traverse_cfg(f, Tail(rets))}

----------------------------------------------------------------------------
(* State                                                                   *)

VARIABLES
    func,                 \* the function under analysis
    pc,                   \* Lab4: the call of process_functions' loop body in progress
    instruction_list,     \* Lab4: collect_instructions' sorted address list
    def_use_info,         \* Lab4: address -> def/use label
    instruction_def_use,  \* Lab4: the global dict instruction -> {def, use}
    ret_blocks,           \* Lab4: list(find_ret_blocks(func))
    all_paths,            \* Lab4: what reverse_traverse_cfg returned
    path_index,           \* compute_data_dependencies: index of the path walked
    instr_index,          \* compute_data_dependencies: index in that path, 0 before the walk
    storage,              \* compute_data_dependencies: the path's DDStorage
    dependencies,         \* compute_data_dependencies: the list computed last
    cur,                  \* compute_data_dependencies: the position processed last
    all_dependencies,     \* compute_data_dependencies: address -> {def, use, DD}
    def_use_graph,        \* Lab4: the graph collect_instructions returned
    DD_graph,             \* Lab4: the graph generate_DD_dot_graph returned
    collect3,             \* Lab3: the state of collect_instructions
    trav,                 \* Lab3: the state of reverse_traverse_cfg
    batch                 \* Lab4: the state of main / process_functions

lab4vars ==
    << pc, instruction_list, def_use_info, instruction_def_use, ret_blocks,
       all_paths, path_index, instr_index, storage, dependencies, cur,
       all_dependencies, def_use_graph, DD_graph >>

vars == << func, lab4vars, collect3, trav, batch >>

Idle == [pc |-> "idle"]

NoFunction == Function("", << >>, << >>, {})

Lab4Idle ==
    /\ pc = "idle"
    /\ instruction_list = << >>
    /\ def_use_info = << >>
    /\ instruction_def_use = << >>
    /\ ret_blocks = << >>
    /\ all_paths = << >>
    /\ path_index = 0
    /\ instr_index = 0
    /\ storage = DDStorage_init
    /\ dependencies = << >>
    /\ cur = [p |-> 0, i |-> 0]
    /\ all_dependencies = << >>
    /\ def_use_graph = NoGraph
    /\ DD_graph = NoGraph

----------------------------------------------------------------------------
(* Lab4: the body of process_functions' loop for one function              *)

Init ==
    /\ IsFunction(func)
    /\ pc = "collect"
    /\ instruction_list = << >>
    /\ def_use_info = << >>
    /\ instruction_def_use = << >>
    /\ ret_blocks = << >>
    /\ all_paths = << >>
    /\ path_index = 0
    /\ instr_index = 0
    /\ storage = DDStorage_init
    /\ dependencies = << >>
    /\ cur = [p |-> 0, i |-> 0]
    /\ all_dependencies = << >>
    /\ def_use_graph = NoGraph
    /\ DD_graph = NoGraph
    /\ collect3 = Idle
    /\ trav = Idle
    /\ batch = Idle

\* instruction_list, def_use_graph = collect_instructions(func)
CollectInstructions ==
    /\ pc = "collect"
    /\ LET r == Lab4_collect_instructions(func)
       IN  /\ pc' = IF r.raised THEN "raised" ELSE "find_ret"
           /\ instruction_list' = r.instruction_list
           /\ def_use_info' = r.def_use_info
           /\ instruction_def_use' = r.instruction_def_use
           /\ def_use_graph' = r.def_use_graph
    /\ UNCHANGED << func, ret_blocks, all_paths, path_index, instr_index, storage,
                    dependencies, cur, all_dependencies, collect3, trav, batch,
                    DD_graph >>

\* ret_blocks = find_ret_blocks(func): list(ret_blocks) of a set
FindRetBlocks ==
    /\ pc = "find_ret"
    /\ ret_blocks' \in Perms(find_ret_blocks(func))
    /\ pc' = "traverse"
    /\ UNCHANGED << func, instruction_list, def_use_info, instruction_def_use,
                    all_paths, path_index, instr_index, storage, dependencies, cur,
                    all_dependencies, collect3, trav, batch,
                    def_use_graph, DD_graph >>

\* all_paths = reverse_traverse_cfg(func, ret_blocks); compute_data_dependencies
\* starts with all_dependencies = {}
ReverseTraverseCfg ==
    /\ pc = "traverse"
    /\ all_paths' \in Lab4_reverse_traverse_cfg(func, ret_blocks)
    /\ pc' = "deps"
    /\ path_index' = 1
    /\ instr_index' = 0
    /\ all_dependencies' = << >>
    /\ UNCHANGED << func, instruction_list, def_use_info, instruction_def_use,
                    ret_blocks, storage, dependencies, cur, collect3, trav, batch,
                    def_use_graph, DD_graph >>

\* a faulty variant: the tracker of the previous path is used again
ReusedPathStorage(previous) == previous

\* storage = DDStorage(), at the head of the loop over the paths
NewPathStorage(previous) == DDStorage_init

\* for path_index, path in enumerate(all_paths): storage = DDStorage()
BeginPath ==
    /\ pc = "deps"
    /\ path_index \in DOMAIN all_paths
    /\ instr_index = 0
    /\ storage' = NewPathStorage(storage)
    /\ instr_index' = 1
    /\ UNCHANGED << func, pc, instruction_list, def_use_info, instruction_def_use,
                    ret_blocks, all_paths, path_index, dependencies, cur,
                    all_dependencies, collect3, trav, batch,
                    def_use_graph, DD_graph >>

\* the loop variables after the element at instr_index
Advance ==
    /\ cur' = [p |-> path_index, i |-> instr_index]
    /\ IF instr_index < Len(all_paths[path_index])
       THEN /\ instr_index' = instr_index + 1
            /\ path_index' = path_index
       ELSE /\ instr_index' = 0
            /\ path_index' = path_index + 1

\* if instr == "START": continue
SkipStart ==
    /\ pc = "deps"
    /\ path_index \in DOMAIN all_paths
    /\ instr_index \in DOMAIN all_paths[path_index]
    /\ all_paths[path_index][instr_index] = START
    /\ Advance
    /\ UNCHANGED << func, pc, instruction_list, def_use_info, instruction_def_use,
                    ret_blocks, all_paths, storage, dependencies, all_dependencies,
                    collect3, trav, batch,
                    def_use_graph, DD_graph >>

\* defs, uses of instr: its entry of instruction_def_use, else [], []
DefUseOf(idu, instr) ==
    IF instr \in DOMAIN idu THEN [def |-> idu[instr].def, use |-> idu[instr].use]
    ELSE [def |-> << >>, use |-> << >>]

\* RET gets dependencies = [] and no call of processDataDep
StepDependencies(f, idu, st, instr) ==
    IF f.listing[instr].mnem = "RET"
    THEN [dependsOn |-> << >>, storage |-> st]
    ELSE processDataDep(st, DefUseOf(idu, instr).use, DefUseOf(idu, instr).def, instr)

\* a faulty variant: the later path's list replaces the earlier one
MergeDD_overwrite(old, new) == Perms(Range(new))

\* list(set(old + new)): the distinct elements, in any order
MergeDD(old, new) == Perms(Range(old) \cup Range(new))

\* The entries all_dependencies may hold for instr after the update
UpdatedEntries(deps, instr, du, dd) ==
    IF instr \in DOMAIN deps
    THEN {[def |-> du.def, use |-> du.use, DD |-> m] : m \in MergeDD(deps[instr].DD, dd)}
    ELSE {[def |-> du.def, use |-> du.use, DD |-> dd]}

\* one iteration of "for instr_index, instr in enumerate(path)" for an
\* instruction
ProcessInstr ==
    /\ pc = "deps"
    /\ path_index \in DOMAIN all_paths
    /\ instr_index \in DOMAIN all_paths[path_index]
    /\ all_paths[path_index][instr_index] # START
    /\ LET instr == all_paths[path_index][instr_index]
           r == StepDependencies(func, instruction_def_use, storage, instr)
       IN  /\ dependencies' = r.dependsOn
           /\ storage' = r.storage
           /\ \E entry \in UpdatedEntries(all_dependencies, instr,
                                          DefUseOf(instruction_def_use, instr),
                                          r.dependsOn) :
                  all_dependencies' =
                      [a \in DOMAIN all_dependencies \cup {instr} |->
                          IF a = instr THEN entry ELSE all_dependencies[a]]
    /\ Advance
    /\ UNCHANGED << func, pc, instruction_list, def_use_info, instruction_def_use,
                    ret_blocks, all_paths, collect3, trav, batch,
                    def_use_graph, DD_graph >>

\* return all_dependencies
EndCompute ==
    /\ pc = "deps"
    /\ path_index = Len(all_paths) + 1
    /\ pc' = "graph"
    /\ UNCHANGED << func, instruction_list, def_use_info, instruction_def_use,
                    ret_blocks, all_paths, path_index, instr_index, storage,
                    dependencies, cur, all_dependencies, collect3, trav, batch,
                    def_use_graph, DD_graph >>

\* the (dep_address, instr_address) pairs appended for the instruction at
\* position i: one per element of its entry's DD, none without an entry
DDEdgePairsAt(il, deps, i) ==
    IF il[i] \in DOMAIN deps
    THEN [k \in DOMAIN deps[il[i]].DD |-> << deps[il[i]].DD[k], il[i] >>]
    ELSE << >>

RECURSIVE DDEdgePairsFrom(_, _, _)
DDEdgePairsFrom(il, deps, i) ==
    IF i > Len(il) THEN << >>
    ELSE DDEdgePairsAt(il, deps, i) \o DDEdgePairsFrom(il, deps, i + 1)

\* one step of the stable sort: e goes behind the pairs whose key, the
\* dependent's address, is not larger
RECURSIVE InsertByDependent(_, _)
InsertByDependent(sorted, e) ==
    IF sorted = << >> THEN << e >>
    ELSE IF sorted[Len(sorted)][2] <= e[2] THEN Append(sorted, e)
    ELSE Append(InsertByDependent(SubSeq(sorted, 1, Len(sorted) - 1), e),
                sorted[Len(sorted)])

\* sorted(edges, key=lambda x: int(x[1], 16))
RECURSIVE SortByDependent(_, _)
SortByDependent(pairs, sorted) ==
    IF pairs = << >> THEN sorted
    ELSE SortByDependent(Tail(pairs), InsertByDependent(sorted, Head(pairs)))

\* a faulty variant: the nodes of the instructions are counted from 0
DDNodeOf_fromZero(il, addr) ==
    IF addr \in Range(il) THEN NodeNumber(il, addr) - 1 ELSE 0

\* address_to_node.get(dep_address, "n0"): START and unknown addresses are n0
DDNodeOf(il, addr) ==
    IF addr \in Range(il) THEN NodeNumber(il, addr) ELSE 0

\* a faulty variant: the label is formatted from the entry without looking
\* whether there is one
DDNode_noElse(il, deps, n) ==
    [node |-> n, addr |-> il[n], entry |-> TRUE,
     DD |-> IF il[n] \in DOMAIN deps THEN deps[il[n]].DD ELSE << >>]

\* the node written for the instruction at position n: "0x...; DD: <list>"
\* if matched_keys, else "0x...; DD:"
DDNode(il, deps, n) ==
    [node |-> n, addr |-> il[n], entry |-> il[n] \in DOMAIN deps,
     DD |-> IF il[n] \in DOMAIN deps THEN deps[il[n]].DD ELSE << >>]

\* generate_DD_dot_graph: node n0 for START, then one node per instruction of
\* instruction_list, in that order, labelled with the DD list of its entry
\* ("DD:" alone when it has no entry); then, sorted by dependent, one edge
\* from the dependent's node to the source's node per pair
generate_DD_dot_graph(f, il, deps) ==
    [name |-> f.name,
     nodes |-> [n \in 0..Len(il) |->
                   IF n = 0
                   THEN [node |-> 0, addr |-> START, entry |-> FALSE, DD |-> << >>]
                   ELSE DDNode(il, deps, n)],
     edges |-> LET pairs == SortByDependent(DDEdgePairsFrom(il, deps, 1), << >>)
               IN  [k \in DOMAIN pairs |->
                       << NodeNumber(il, pairs[k][2]), DDNodeOf(il, pairs[k][1]) >>]]

\* DD_graph = generate_DD_dot_graph(func, instruction_list, all_dependencies)
GenerateDDGraph ==
    /\ pc = "graph"
    /\ pc' = "emitted"
    /\ DD_graph' = generate_DD_dot_graph(func, instruction_list, all_dependencies)
    /\ UNCHANGED << func, instruction_list, def_use_info, instruction_def_use,
                    ret_blocks, all_paths, path_index, instr_index, storage,
                    dependencies, cur, all_dependencies, collect3, trav, batch,
                    def_use_graph >>

Next ==
    \/ GenerateDDGraph
    \/ CollectInstructions
    \/ FindRetBlocks
    \/ ReverseTraverseCfg
    \/ BeginPath
    \/ SkipStart
    \/ ProcessInstr
    \/ EndCompute

Spec == Init /\ [][Next]_vars

----------------------------------------------------------------------------
(* Lab4: properties of compute_data_dependencies                           *)

ComputeStarted == pc \in {"deps", "graph"}

\* the instruction processed last, when there is one
CurIsInstr ==
    /\ ComputeStarted
    /\ cur.p \in DOMAIN all_paths
    /\ cur.i \in DOMAIN all_paths[cur.p]
    /\ all_paths[cur.p][cur.i] # START

CurInstr == all_paths[cur.p][cur.i]

UsesOf(a) == Range(DefUseOf(instruction_def_use, a).use)

DefsOf(a) == Range(DefUseOf(instruction_def_use, a).def)

\* the positions before i on path whose instruction defines L
DefinersBefore(path, i, L) ==
    {j \in 1..(i - 1) : path[j] # START /\ L \in DefsOf(path[j])}

\* the address of the latest instruction strictly before position i on path
\* whose defs contain L, or START
NearestDefiner(path, i, L) ==
    IF DefinersBefore(path, i, L) = {} THEN START
    ELSE path[CHOOSE j \in DefinersBefore(path, i, L) :
                  \A k \in DefinersBefore(path, i, L) : k <= j]

\* C1: on the path being walked, the list processDataDep returned for the
\* instruction processed last holds, for every used location, the address of
\* its nearest strictly earlier definer on that path, or START when there is
\* none, and nothing else.
C1_NearestDefinerOrStart ==
    (CurIsInstr /\ func.listing[CurInstr].mnem # "RET")
        => Range(dependencies) =
               {NearestDefiner(all_paths[cur.p], cur.i, L) : L \in UsesOf(CurInstr)}

\* C1 witness: a used location has two earlier definers on the path, and
\* another used location has none
C1_Witness ==
    /\ CurIsInstr
    /\ func.listing[CurInstr].mnem # "RET"
    /\ \E L \in UsesOf(CurInstr) :
           Cardinality(DefinersBefore(all_paths[cur.p], cur.i, L)) >= 2
    /\ \E L \in UsesOf(CurInstr) : DefinersBefore(all_paths[cur.p], cur.i, L) = {}

\* the walk of the first n elements of path alone, from a new DDStorage
RECURSIVE WalkAlone(_, _)
WalkAlone(path, n) ==
    IF n = 0 THEN [dependsOn |-> << >>, storage |-> DDStorage_init]
    ELSE IF path[n] = START THEN WalkAlone(path, n - 1)
    ELSE StepDependencies(func, instruction_def_use, WalkAlone(path, n - 1).storage,
                          path[n])

\* the positions at which address a occurs on the enumerated paths
Occurrences(a) ==
    {o \in UNION {{<< p, i >> : i \in DOMAIN all_paths[p]} : p \in DOMAIN all_paths} :
        all_paths[o[1]][o[2]] = a}

OnSomePath == {a \in Addresses(func) : Occurrences(a) # {}}

\* the sources of address a on path p alone
PerPathSources(o) == Range(WalkAlone(all_paths[o[1]], o[2]).dependsOn)

\* C3: when compute_data_dependencies returns, the instructions with an
\* entry are those on some path, and each one's DD, as a set, is the union of
\* its per-path sources over every path that contains it, in whichever order
\* the paths were listed and the merged lists came out.
C3_UnionOfPerPathResults ==
    pc = "graph" =>
        /\ DOMAIN all_dependencies = OnSomePath
        /\ \A a \in OnSomePath :
               Range(all_dependencies[a].DD) =
                   UNION {PerPathSources(o) : o \in Occurrences(a)}

\* C3 witness: an instruction on two paths whose per-path sources differ
C3_Witness ==
    /\ pc = "graph"
    /\ \E a \in OnSomePath :
           \E o1, o2 \in Occurrences(a) :
               /\ PerPathSources(o1) \ PerPathSources(o2) # {}
               /\ PerPathSources(o2) \ PerPathSources(o1) # {}

\* C6: while a path is walked, the tracker holds exactly what the walk of
\* this path alone from an empty tracker gives, and the list computed last
\* is the one that walk gives: nothing recorded on an earlier path is seen.
C6_FreshTrackerPerPath ==
    /\ (pc = "deps" /\ path_index \in DOMAIN all_paths /\ instr_index >= 1)
           => storage = WalkAlone(all_paths[path_index], instr_index - 1).storage
    /\ CurIsInstr => dependencies = WalkAlone(all_paths[cur.p], cur.i).dependsOn

\* C6 witness: the second path is being walked, and the first path left a
\* definition by an instruction that is not on the second path
C6_Witness ==
    /\ pc = "deps"
    /\ path_index = 2
    /\ instr_index >= 2
    /\ LET before == WalkAlone(all_paths[1], Len(all_paths[1])).storage
       IN  \E L \in DOMAIN before :
               /\ before[L] \notin Range(all_paths[2])
               /\ L \in UNION {UsesOf(a) : a \in Range(all_paths[2]) \ {START}}

\* the sources C8 states for a RET at an occurrence
RetSources(o) ==
    {NearestDefiner(all_paths[o[1]], o[2], "ESP"),
     NearestDefiner(all_paths[o[1]], o[2], "[ESP]")}

\* C8 (as claimed): the dependency set of a RET is the nearest same-path
\* definer of ESP and the nearest same-path definer of [ESP], START standing
\* for a missing one.
C8_RetDependsOnStack ==
    pc = "graph" =>
        \A a \in OnSomePath :
            func.listing[a].mnem = "RET"
                => Range(all_dependencies[a].DD) =
                       UNION {RetSources(o) : o \in Occurrences(a)}

----------------------------------------------------------------------------
(* Lab3: collect_instructions, one iteration of the address loop per step  *)

\* the example of the module docstring, addresses 1 to 6
ExampleListing ==
    << MOV_EAX_1, MOV_ECX_2, PUSH_ECX, PUSH_EAX, POP_ECX, POP_EAX >>

ExampleFunction ==
    Function("FUN_00401078", ExampleListing, << [min |-> 1, max |-> 6] >>, {})

\* the locals of collect_instructions before the loop
Collect3Start ==
    [pc |-> "loop", cursor |-> 1, instruction_list |-> << >>,
     jumps |-> << >>, conditional_jumps |-> {}, ret_instructions |-> {},
     def_use_info |-> << >>, storage |-> DDStorage_init, dependsOn |-> << >>]

InitLab3 ==
    /\ IsFunction(func) \/ func = ExampleFunction
    /\ Lab4Idle
    /\ collect3 = Collect3Start
    /\ trav = Idle
    /\ batch = Idle

\* d[k] = v
Put(d, k, v) == [x \in DOMAIN d \cup {k} |-> IF x = k THEN v ELSE d[x]]

\* the jump bookkeeping at the end of the loop body
Collect3Jumps(c, addr, ins) ==
    IF ins.isJump /\ ins.flows # << >>
    THEN [c EXCEPT !.jumps = Put(c.jumps, addr, ins.flows[1]),
                   !.conditional_jumps =
                       IF ins.isCond THEN c.conditional_jumps \cup {addr}
                       ELSE c.conditional_jumps]
    ELSE c

\* the loop body for the instruction at addr, analyze_instruction having
\* returned the tuple r
Collect3Body(c, addr, ins, r) ==
    LET dd == processDataDep(c.storage, r.uses, r.defs, addr)
    IN  Collect3Jumps(
            [c EXCEPT !.cursor = addr + 1,
                      !.instruction_list = Append(c.instruction_list, addr),
                      !.def_use_info = Put(c.def_use_info, addr, r.label),
                      !.storage = dd.storage,
                      !.dependsOn = Put(c.dependsOn, addr, dd.dependsOn),
                      !.ret_instructions =
                          IF ins.mnem = "RET" THEN c.ret_instructions \cup {addr}
                          ELSE c.ret_instructions],
            addr, ins)

\* One instruction of the loop.  The unpacking
\*     def_use_label, defs, uses = analyze_instruction(instruction, addr_str)
\* raises TypeError when analyze_instruction returned None, and an exception
\* raised inside analyze_instruction leaves collect_instructions as well.
Collect3Instruction ==
    /\ collect3.pc = "loop"
    /\ collect3.cursor \in Addresses(func)
    /\ LET addr == collect3.cursor
           ins == func.listing[addr]
           r == Lab3_analyze_instruction(ins)
       IN  collect3' =
               IF r.kind = "ok" THEN Collect3Body(collect3, addr, ins, r)
               ELSE [collect3 EXCEPT
                        !.pc = "raised",
                        !.instruction_list = Append(collect3.instruction_list, addr)]
    /\ UNCHANGED << func, lab4vars, trav, batch >>

\* instruction_list.sort(...) and the return
Collect3Return ==
    /\ collect3.pc = "loop"
    /\ collect3.cursor = Len(func.listing) + 1
    /\ collect3' = [collect3 EXCEPT !.pc = "returned"]
    /\ UNCHANGED << func, lab4vars, trav, batch >>

NextLab3 == Collect3Instruction \/ Collect3Return

SpecLab3 == InitLab3 /\ [][NextLab3]_vars

----------------------------------------------------------------------------
(* Lab3: properties of collect_instructions                                *)

Collect3Returned == collect3.pc = "returned"

\* C2 (as claimed): for the docstring's six instructions walked in order by
\* one tracker, PUSH ECX depends on {2, START}, PUSH EAX on {3, 1}, POP ECX
\* on {4} and POP EAX on {5, 3}.
C2_DocstringExample ==
    (Collect3Returned /\ func = ExampleFunction) =>
        /\ Range(collect3.dependsOn[3]) = {2, START}
        /\ Range(collect3.dependsOn[4]) = {3, 1}
        /\ Range(collect3.dependsOn[5]) = {4}
        /\ Range(collect3.dependsOn[6]) = {5, 3}

\* the entry-to-return paths of the CFG, as instruction lists
CfgPaths(f) ==
    UNION {{path_to_instructions(f, p) : p \in Lab4_paths_to(f, r)} :
              r \in find_ret_blocks(f)}

Lab3UsesOf(a) == Range(Lab3_analyze_instruction(func.listing[a]).uses)

Lab3DefsOf(a) == Range(Lab3_analyze_instruction(func.listing[a]).defs)

\* s is, at position i of path, the nearest earlier definer of L
IsNearestDefinerOn(path, i, L, s) ==
    \E j \in 1..(i - 1) :
        /\ path[j] = s
        /\ L \in Lab3DefsOf(s)
        /\ \A k \in (j + 1)..(i - 1) : L \notin Lab3DefsOf(path[k])

\* s lies before a on some entry-to-return path and is there the nearest
\* definer of a location a uses
FollowsCfg(s, a) ==
    \E path \in CfgPaths(func) :
        \E i \in DOMAIN path :
            /\ path[i] = a
            /\ \E L \in Lab3UsesOf(a) : IsNearestDefinerOn(path, i, L, s)

\* every instruction of the function is on an entry-to-return path
EveryInstructionOnAPath ==
    Addresses(func) = UNION {Range(path) : path \in CfgPaths(func)}

\* C7 (as claimed): in a function all of whose instructions are on
\* entry-to-return paths, every source recorded in dependsOn lies before the
\* dependent instruction on some entry-to-return CFG path and is the nearest
\* definer on that path; so in an if/else diamond an instruction of one arm
\* does not depend on a definition made only in the other arm.
C7_SourcesFollowCfg ==
    EveryInstructionOnAPath =>
        \A a \in DOMAIN collect3.dependsOn :
            \A s \in Range(collect3.dependsOn[a]) \ {START} : FollowsCfg(s, a)

\* C9 (as claimed): an instruction whose mnemonic is not in the recognized
\* table never stops collect_instructions.
C9_UnrecognizedNeverStops ==
    ~ /\ collect3.pc = "raised"
      /\ func.listing[collect3.cursor].mnem \notin RecognizedMnemonics

\* the operands of the instructions collect_instructions has analysed
AnalysedOperands ==
    UNION {Range(func.listing[a].ops) : a \in DOMAIN collect3.def_use_info}

\* the Register tokens of an operand's representation list
AddressRegisters(op) == {op.toks[i].s : i \in {k \in DOMAIN op.toks : op.toks[k].isReg}}

\* a memory operand: no register of its own, and a bracketed representation
IsMemoryOperand(op) == op.reg = NoReg /\ op.toks # << >> /\ Head(op.toks) = LBr

IsRegisterIndexed(op) ==
    IsMemoryOperand(op) /\ AddressRegisters(op) # {} /\ Last(op.toks) = RBr

\* what operandRegisterHelper adds for the operand alone, Lab3's or Lab4's
HelperOn(op, lab3) == OperandStep([defs |-> << >>, uses |-> << >>], op, lab3)

\* C19: for a register-indexed memory operand, operandRegisterHelper (both
\* variants) puts the registers of the address expression into uses, read or
\* written, and never into defs; the bracketed expression goes to defs
\* exactly if the operand is written and to uses exactly if it is read.
C19_AddressRegistersAreUses ==
    \A op \in {o \in AnalysedOperands : IsRegisterIndexed(o)} :
        \A lab3 \in BOOLEAN :
            LET du == HelperOn(op, lab3)
            IN  /\ AddressRegisters(op) \subseteq Range(du.uses)
                /\ AddressRegisters(op) \cap Range(du.defs) = {}
                /\ JoinToks(op.toks) \in Range(du.defs) <=> op.write
                /\ JoinToks(op.toks) \in Range(du.uses) <=> op.read

\* C20: a memory operand without a Register token (an absolute address such
\* as [0x404000]) has its raw text recorded as a key, in uses if it is read
\* and in defs if it is written, by both variants.
C20_OpaqueKeyForAbsoluteOperand ==
    \A op \in {o \in AnalysedOperands :
                  IsMemoryOperand(o) /\ AddressRegisters(o) = {}} :
        \A lab3 \in BOOLEAN :
            LET du == HelperOn(op, lab3)
            IN  /\ op.read => JoinToks(op.toks) \in Range(du.uses)
                /\ op.write => JoinToks(op.toks) \in Range(du.defs)

\* the instructions collect_instructions has analysed
AnalysedInstructions == {func.listing[a] : a \in DOMAIN collect3.def_use_info}

\* C22: neither the defs list nor the uses list analyze_instruction produces
\* holds a location twice, for every mnemonic and operand combination, LEAVE,
\* CALL and STOSD.REP included (both variants).
C22_NoLocationTwice ==
    \A ins \in AnalysedInstructions :
        /\ NoDuplicates(Lab3_analyze_instruction(ins).defs)
        /\ NoDuplicates(Lab3_analyze_instruction(ins).uses)
        /\ NoDuplicates(Lab4_analyze_instruction(ins).defs)
        /\ NoDuplicates(Lab4_analyze_instruction(ins).uses)

----------------------------------------------------------------------------
(* Lab3: reverse_traverse_cfg, the recursion of traverse on a stack        *)

\* at most this many CFG edges in a function whose CFG is traversed
MaxTravEdges == 5

\* the default of traverse's parameter loop_limit; no call passes another
DefaultLoopLimit == 1

\* the functions traversed: three blocks, each an instruction or a RET, and
\* any set of at most MaxTravEdges edges leaving the blocks without a RET
IsTravFunction(f) ==
    \E c \in [Blocks -> {<< MOV_EAX_1 >>, << RET >>}] :
        \E E \in SUBSET {e \in Blocks \X Blocks : c[e[1]] # << RET >>} :
            /\ Cardinality(E) <= MaxTravEdges
            /\ f = FunctionOfBlocks("FUN_00401078", c, E)

\* block.getSources(monitor): the blocks with an edge to block
Sources(f, block) == {e[1] : e \in {d \in f.edges : d[2] = block}}

\* visited = {block: 0 for block in ...getCodeBlocksContaining(...)}
NothingVisited(f) == [b \in DOMAIN f.blocks |-> 0]

\* a faulty variant: one more visit is let through
VisitLimitReached_offByOne(visited, block, loop_limit) ==
    visited[block] = loop_limit + 1

\* if visited.get(block, 0) == loop_limit: return
VisitLimitReached(visited, block, loop_limit) == visited[block] = loop_limit

\* the locals of reverse_traverse_cfg before its loop over ret_blocks
TravStart(f, rets) ==
    [pc |-> "loop", rets |-> rets, visited |-> NothingVisited(f),
     stack |-> << >>, paths |-> << >>, all_instructions |-> << >>]

\* The call traverse(block, visited, path, paths, entry_block, loop_limit) up
\* to its loop over the sources: what becomes of paths and of the stack, and
\* the dict visited as the call leaves it.  The frame pushed holds the
\* call's locals; its sources are listed in any order.
TraverseEnter(f, t, block, visited, path, loop_limit) ==
    LET counted == [visited EXCEPT ![block] = visited[block] + 1]
        new_path == << block >> \o path
    IN  IF VisitLimitReached(visited, block, loop_limit)
        THEN {[paths |-> t.paths, stack |-> t.stack, visited |-> visited]}
        ELSE IF block = EntryBlock(f)
        THEN {[paths |-> Append(t.paths, new_path), stack |-> t.stack,
               visited |-> counted]}
        ELSE {[paths |-> t.paths,
               stack |-> Append(t.stack,
                                [block |-> block, visited |-> counted,
                                 new_path |-> new_path, sources |-> order,
                                 has_predecessors |-> FALSE,
                                 loop_limit |-> loop_limit]),
               visited |-> counted] : order \in Perms(Sources(f, block))}

InitTrav ==
    /\ IsTravFunction(func)
    /\ Lab4Idle
    /\ collect3 = Idle
    /\ \E rets \in Perms(find_ret_blocks(func)) : trav = TravStart(func, rets)
    /\ batch = Idle

\* for ret_block in ret_blocks: traverse(ret_block, visited, [], paths,
\* entry_block), on the dict visited itself and with the default loop_limit
TravCall ==
    /\ trav.pc = "loop"
    /\ trav.stack = << >>
    /\ trav.rets # << >>
    /\ \E r \in TraverseEnter(func, trav, Head(trav.rets), trav.visited, << >>,
                              DefaultLoopLimit) :
           trav' = [trav EXCEPT !.rets = Tail(trav.rets), !.visited = r.visited,
                                !.stack = r.stack, !.paths = r.paths]
    /\ UNCHANGED << func, lab4vars, collect3, batch >>

\* One turn of the loop over the sources:
\*     traverse(source_block, visited.copy(), new_path, paths, entry_block)
\* The call does not pass loop_limit on, so the callee has the default.
TravRecurse ==
    /\ trav.pc = "loop"
    /\ trav.stack # << >>
    /\ Last(trav.stack).sources # << >>
    /\ LET top == Last(trav.stack)
           caller == [top EXCEPT !.sources = Tail(top.sources),
                                 !.has_predecessors = TRUE]
           t == [trav EXCEPT !.stack[Len(trav.stack)] = caller]
       IN  \E r \in TraverseEnter(func, t, Head(top.sources), top.visited,
                                  top.new_path, DefaultLoopLimit) :
               trav' = [t EXCEPT !.stack = r.stack, !.paths = r.paths]
    /\ UNCHANGED << func, lab4vars, collect3, batch >>

\* a faulty variant: the path is saved whether or not the block had
\* predecessors
TravReturn_alwaysSaves ==
    /\ trav.pc = "loop"
    /\ trav.stack # << >>
    /\ Last(trav.stack).sources = << >>
    /\ trav' = [trav EXCEPT
                   !.stack = SubSeq(trav.stack, 1, Len(trav.stack) - 1),
                   !.paths = Append(trav.paths, Last(trav.stack).new_path)]
    /\ UNCHANGED << func, lab4vars, collect3, batch >>

\* The sources are exhausted: a block without predecessors saves its path,
\* and the call returns.
TravReturn ==
    /\ trav.pc = "loop"
    /\ trav.stack # << >>
    /\ Last(trav.stack).sources = << >>
    /\ LET top == Last(trav.stack)
       IN  trav' = [trav EXCEPT
                       !.stack = SubSeq(trav.stack, 1, Len(trav.stack) - 1),
                       !.paths = IF top.has_predecessors THEN trav.paths
                                 ELSE Append(trav.paths, top.new_path)]
    /\ UNCHANGED << func, lab4vars, collect3, batch >>

\* all_instructions.append(path_to_instructions(path)) for every path, and
\* the return
TravFinish ==
    /\ trav.pc = "loop"
    /\ trav.stack = << >>
    /\ trav.rets = << >>
    /\ trav' = [trav EXCEPT
                   !.pc = "returned",
                   !.all_instructions =
                       [i \in DOMAIN trav.paths |->
                           path_to_instructions(func, trav.paths[i])]]
    /\ UNCHANGED << func, lab4vars, collect3, batch >>

NextTrav == TravCall \/ TravRecurse \/ TravReturn \/ TravFinish

SpecTrav == InitTrav /\ [][NextTrav]_vars

\* the interpreter keeps running the call until it returns
SpecTravFair == SpecTrav /\ WF_vars(NextTrav)

----------------------------------------------------------------------------
(* Lab3: properties of reverse_traverse_cfg                                *)

TravReturned == trav.pc = "returned"

\* how often block b occurs on path
Visits(path, b) == Cardinality({i \in DOMAIN path : path[i] = b})

\* entry 1, loop body 2 with the back edge to itself, return block 3
SingleBackEdgeLoop == {<< 1, 2 >>, << 2, 2 >>, << 2, 3 >>}

IsSingleBackEdgeLoop(f) ==
    /\ f.edges = SingleBackEdgeLoop
    /\ find_ret_blocks(f) = {3}

\* C4 (as claimed): for a loop with a single back edge between the entry and
\* a return block, some enumerated path holds the loop body twice and none
\* holds it more than twice.
C4_LoopBodyTwice ==
    (TravReturned /\ IsSingleBackEdgeLoop(func)) =>
        /\ \E i \in DOMAIN trav.paths : Visits(trav.paths[i], 2) = 2
        /\ \A i \in DOMAIN trav.paths : Visits(trav.paths[i], 2) <= 2

\* the partial paths of the calls in progress
PartialPaths == {trav.stack[i].new_path : i \in DOMAIN trav.stack}

DepthBound == Cardinality(DOMAIN func.blocks) * DefaultLoopLimit

\* C5: the enumeration returns on every CFG, cyclic ones included, and at
\* every point of it the partial path of every call in progress, and every
\* saved path, holds at most (number of blocks * loop_limit) blocks.
C5_TerminatesWithBoundedDepth ==
    /\ [](/\ \A path \in PartialPaths : Len(path) <= DepthBound
          /\ \A i \in DOMAIN trav.paths : Len(trav.paths[i]) <= DepthBound)
    /\ <>TravReturned

\* a cycle through b that b's self-loop is nested in
InNestedCycles(f, b) ==
    /\ << b, b >> \in f.edges
    /\ \E c \in DOMAIN f.blocks : c # b /\ << b, c >> \in f.edges /\ << c, b >> \in f.edges

\* C5 witness: the enumeration has returned a path of full depth for a CFG
\* with a cycle nested in a cycle
C5_Witness ==
    /\ TravReturned
    /\ \E b \in DOMAIN func.blocks : InNestedCycles(func, b)
    /\ \E i \in DOMAIN trav.paths : Len(trav.paths[i]) = DepthBound

----------------------------------------------------------------------------
(* Lab4: main and process_functions over the functions of a program        *)

\* at most this many functions in the program
MaxFunctions == 3

\* a jump out of the function (a tail call): its target is no instruction of
\* the function
JMP_OUT == JumpInstr("JMP", << CodeTarget("0x401500") >>, FALSE, 99)

OneBlock(name, listing) ==
    Function(name, listing, << [min |-> 1, max |-> Len(listing)] >>, {})

\* the functions a program is made of here; create_dot_graph raises KeyError
\* for the third one
ProgramFunctions ==
    {OneBlock("FUN_00401000", << MOV_EAX_1, RET >>),
     OneBlock("FUN_00401010", << PUSH_EAX, POP_EAX, RET >>),
     Function("FUN_00401020", << JMP_OUT, RET >>,
              << [min |-> 1, max |-> 1], [min |-> 2, max |-> 2] >>, {}),
     OneBlock("FUN_00401030", << NEG_EAX, RET >>)}

\* main has called process_functions, which is before its loop
BatchStart(fs) ==
    [pc |-> "loop", functions |-> fs, index |-> 1, functions_count |-> 0,
     def_use_result |-> << >>, DD_result |-> << >>, files |-> {},
     error |-> ""]

\* function_manager.getFunctions(True) lists one to MaxFunctions functions
InitBatch ==
    /\ func = NoFunction
    /\ Lab4Idle
    /\ collect3 = Idle
    /\ trav = Idle
    /\ \E fs \in UNION {[1..n -> ProgramFunctions] : n \in 1..MaxFunctions} :
           batch = BatchStart(fs)

\* for func in functions: functions_count += 1, and the loop body starts
BatchNextFunction ==
    /\ batch.pc = "loop"
    /\ batch.index \in DOMAIN batch.functions
    /\ func' = batch.functions[batch.index]
    /\ pc' = "collect"
    /\ batch' = [batch EXCEPT !.pc = "body",
                              !.functions_count = batch.functions_count + 1]
    /\ UNCHANGED << instruction_list, def_use_info, instruction_def_use, ret_blocks,
                    all_paths, path_index, instr_index, storage, dependencies, cur,
                    all_dependencies, collect3, trav, def_use_graph, DD_graph >>

\* The loop body is through: def_use_result += def_use_graph and
\* DD_result += DD_graph.  (Both are locals, lost when the body raises, so
\* the two appends are carried out together here.)
BatchEmit ==
    /\ batch.pc = "body"
    /\ pc = "emitted"
    /\ pc' = "idle"
    /\ batch' = [batch EXCEPT
                    !.pc = "loop",
                    !.index = batch.index + 1,
                    !.def_use_result = Append(batch.def_use_result, def_use_graph),
                    !.DD_result = Append(batch.DD_result, DD_graph)]
    /\ UNCHANGED << func, instruction_list, def_use_info, instruction_def_use,
                    ret_blocks, all_paths, path_index, instr_index, storage,
                    dependencies, cur, all_dependencies, collect3, trav,
                    def_use_graph, DD_graph >>

\* a faulty variant: the failing function is skipped and the loop goes on
AfterFailure_skip(b) == [b EXCEPT !.pc = "loop", !.index = b.index + 1]

\* The exception leaves process_functions (its loop has no try), main's
\* except clause catches it and raises
\*     Exception("Failed to create files. Error: {}".format(e))
AfterFailure(b) ==
    [b EXCEPT !.pc = "raised", !.error = "Failed to create files. Error: analysis"]

\* the loop body raised
BatchPropagate ==
    /\ batch.pc = "body"
    /\ pc = "raised"
    /\ pc' = "idle"
    /\ batch' = AfterFailure(batch)
    /\ UNCHANGED << func, instruction_list, def_use_info, instruction_def_use,
                    ret_blocks, all_paths, path_index, instr_index, storage,
                    dependencies, cur, all_dependencies, collect3, trav,
                    def_use_graph, DD_graph >>

\* return def_use_result, DD_result
BatchReturn ==
    /\ batch.pc = "loop"
    /\ batch.index = Len(batch.functions) + 1
    /\ batch' = [batch EXCEPT !.pc = "returned"]
    /\ UNCHANGED << func, lab4vars, collect3, trav >>

\* open(path, "w") and write: the file is written, or the call raises
\* (no Desktop directory, say) and main's except clause raises
WriteFile(b, name, next) ==
    {[b EXCEPT !.pc = next, !.files = b.files \cup {name}],
     [b EXCEPT !.pc = "raised", !.error = "Failed to create files. Error: write"]}

BatchWriteSubmission ==
    /\ batch.pc = "returned"
    /\ batch' \in WriteFile(batch, "submission.dot", "submission_written")
    /\ UNCHANGED << func, lab4vars, collect3, trav >>

BatchWriteDefUse ==
    /\ batch.pc = "submission_written"
    /\ batch' \in WriteFile(batch, "def_use_submission.dot", "done")
    /\ UNCHANGED << func, lab4vars, collect3, trav >>

NextBatch ==
    \/ BatchNextFunction
    \/ GenerateDDGraph
    \/ CollectInstructions
    \/ FindRetBlocks
    \/ ReverseTraverseCfg
    \/ BeginPath
    \/ SkipStart
    \/ ProcessInstr
    \/ EndCompute
    \/ BatchEmit
    \/ BatchPropagate
    \/ BatchReturn
    \/ BatchWriteSubmission
    \/ BatchWriteDefUse

SpecBatch == InitBatch /\ [][NextBatch]_vars

----------------------------------------------------------------------------
(* Lab4: properties of main and process_functions                          *)

\* the analysis of f raises
Raises(f) == Lab4_collect_instructions(f).raised

\* the functions of the program whose analysis does not raise
Analysable == {i \in DOMAIN batch.functions : ~Raises(batch.functions[i])}

AnalysisFailed == batch.error = "Failed to create files. Error: analysis"

BatchEnded == batch.pc \in {"done", "raised"}

\* C10 (as claimed): when the analysis of a function raises, the batch is
\* not aborted: at the end of main every function whose analysis does not
\* raise has been analysed and its graphs are in the files written.
C10_FailureDoesNotAbort ==
    (BatchEnded /\ AnalysisFailed) =>
        /\ Len(batch.DD_result) = Cardinality(Analysable)
        /\ Len(batch.def_use_result) = Cardinality(Analysable)
        /\ batch.files = {"submission.dot", "def_use_submission.dot"}

\* the first function of the program whose analysis raises
FirstRaising ==
    CHOOSE i \in DOMAIN batch.functions :
        /\ Raises(batch.functions[i])
        /\ \A j \in 1..(i - 1) : ~Raises(batch.functions[j])

\* C10 (amended): the first function whose analysis raises ends the batch.
\* process_functions returns only when no function raises; otherwise main
\* raises "Failed to create files ...", the functions after the failing one
\* are never analysed, no file is written, and nothing but the exception
\* records the failure.
C10_FailureAbortsBatch ==
    /\ batch.pc \in {"returned", "submission_written", "done"}
           => \A i \in DOMAIN batch.functions : ~Raises(batch.functions[i])
    /\ AnalysisFailed =>
           /\ batch.pc = "raised"
           /\ batch.index = FirstRaising
           /\ batch.functions_count = FirstRaising
           /\ Len(batch.DD_result) = FirstRaising - 1
           /\ batch.files = {}
    /\ (batch.pc = "body" /\ pc = "raised") => batch.index = FirstRaising

\* C10 witness: the batch was aborted by its second function, with a third
\* function, whose analysis would not raise, left unanalysed
C10_Witness ==
    /\ batch.pc = "raised"
    /\ AnalysisFailed
    /\ batch.index = 2
    /\ Len(batch.functions) = 3
    /\ ~Raises(batch.functions[3])

----------------------------------------------------------------------------
(* Lab4: properties of the emitted graphs                                  *)

Emitted == pc = "emitted"

\* the numbers of the nodes written for address a
DDNodesFor(a) ==
    {n \in DOMAIN DD_graph.nodes : n >= 1 /\ DD_graph.nodes[n].addr = a}

SourcesAscending(l) ==
    \A i, j \in DOMAIN l :
        (i < j /\ l[i] # START /\ l[j] # START) => l[i] <= l[j]

SourcesDescending(l) ==
    \A i, j \in DOMAIN l :
        (i < j /\ l[i] # START /\ l[j] # START) => l[i] >= l[j]

\* the nodes are n1, n2, ... by ascending address and n0 is START
NumberedByAddress ==
    /\ DOMAIN DD_graph.nodes = 0..Len(instruction_list)
    /\ DD_graph.nodes[0].addr = START
    /\ {DD_graph.nodes[n].addr : n \in 1..Len(instruction_list)}
           = Addresses(func)
    /\ \A n, m \in 1..Len(instruction_list) :
           /\ DD_graph.nodes[n].node = n
           /\ n < m => DD_graph.nodes[n].addr < DD_graph.nodes[m].addr

\* C12: in the emitted dependency graph the sources of every node's DD label
\* are in sorted order (one order, ascending or descending, for the whole
\* graph), and the nodes are numbered n1, n2, ... by ascending address with
\* n0 for START.
C12_SortedLabelsAndNumbering ==
    Emitted => /\ NumberedByAddress
               /\ \/ \A n \in DOMAIN DD_graph.nodes :
                         SourcesAscending(DD_graph.nodes[n].DD)
                  \/ \A n \in DOMAIN DD_graph.nodes :
                         SourcesDescending(DD_graph.nodes[n].DD)

\* the nodes the def/use graph has an edge to from node i
DefUseSuccessors(i) ==
    {def_use_graph.edges[k][2] :
        k \in {x \in DOMAIN def_use_graph.edges : def_use_graph.edges[x][1] = i}}

DefUseGraphMade == pc # "collect" /\ pc # "raised" /\ def_use_graph # NoGraph

\* C13: in the def/use control-flow graph, at every position of the
\* instruction list, the last one included: a jump with a recorded target has
\* an edge to the target's node, a conditional jump also one to the next
\* instruction, an unconditional jump no other edge, a non-jump non-return
\* instruction with a successor exactly the fallthrough edge, and a return no
\* edge.
C13_DefUseEdges ==
    DefUseGraphMade =>
        \A i \in DOMAIN instruction_list :
            LET a == instruction_list[i]
                ins == func.listing[a]
                succ == DefUseSuccessors(i)
                hasNext == i + 1 \in DOMAIN instruction_list
            IN  IF ins.mnem = "RET" THEN succ = {}
                ELSE IF a \in DOMAIN JumpsOf(func)
                THEN LET t == NodeNumber(instruction_list, JumpsOf(func)[a])
                     IN  IF ins.isCond
                         THEN succ = {t} \cup (IF hasNext THEN {i + 1} ELSE {})
                         ELSE succ = {t}
                ELSE succ = (IF hasNext THEN {i + 1} ELSE {})

\* the node written for address a, n0 for START
DDNodeFor(a) ==
    IF a = START THEN 0
    ELSE CHOOSE n \in DOMAIN DD_graph.nodes :
             n >= 1 /\ DD_graph.nodes[n].addr = a

\* C15: the edges of the dependency graph are exactly these: for every
\* instruction with an entry and every source of the entry, an edge from the
\* instruction's node to the source's node, n0 for START; so no edge goes to
\* n0 for a real address and none runs from a source to its dependent.
C15_EdgesToSources ==
    Emitted =>
        /\ Range(DD_graph.edges)
               = {<< DDNodeFor(p[1]), DDNodeFor(p[2]) >> :
                     p \in {q \in (DOMAIN all_dependencies)
                                      \X (Addresses(func) \cup {START}) :
                               q[2] \in Range(all_dependencies[q[1]].DD)}}
        /\ \A k \in DOMAIN DD_graph.edges :
               LET from == DD_graph.nodes[DD_graph.edges[k][1]].addr
                   to == DD_graph.nodes[DD_graph.edges[k][2]].addr
               IN  /\ from # START
                   /\ to \in Range(all_dependencies[from].DD)

\* C15 witness: a graph with an edge to n0 and an edge to the node of an
\* instruction
C15_Witness ==
    /\ Emitted
    /\ \E k \in DOMAIN DD_graph.edges : DD_graph.edges[k][2] = 0
    /\ \E k \in DOMAIN DD_graph.edges : DD_graph.edges[k][2] # 0

\* the run taken as reference: every set is listed in ascending order
ListedAscending(S) ==
    CHOOSE p \in Perms(S) : \A i, j \in DOMAIN p : i < j => p[i] < p[j]

\* the DD list of address a in the reference run: the list of its walk if it
\* occurs once, the listing of the aggregated set otherwise
ReferenceDD(a) ==
    IF Cardinality(Occurrences(a)) = 1
    THEN LET o == CHOOSE x \in Occurrences(a) : TRUE
         IN  WalkAlone(all_paths[o[1]], o[2]).dependsOn
    ELSE ListedAscending(UNION {PerPathSources(o) : o \in Occurrences(a)})

\* C16: the graphs emitted do not vary with the iteration order of the sets
\* used internally: they are those of the run that lists every set in
\* ascending order, labels and edge order included.
C16_SameGraphsAsReferenceRun ==
    Emitted =>
        /\ def_use_graph = Lab4_collect_instructions(func).def_use_graph
        /\ DD_graph = generate_DD_dot_graph(func, instruction_list,
                          [a \in OnSomePath |-> [DD |-> ReferenceDD(a)]])

\* C18: the final dependency record of an instruction holds each source,
\* START included, at most once, also when two used locations have the same
\* nearest definer and the instruction lies on one path only.
C18_EachSourceOnce ==
    Emitted => \A a \in DOMAIN all_dependencies :
                   NoDuplicates(all_dependencies[a].DD)

\* the block of f that holds address a
BlockOf(f, a) ==
    CHOOSE b \in DOMAIN f.blocks : f.blocks[b].min <= a /\ a <= f.blocks[b].max

\* block b of f lies on a CFG cycle of one or two blocks
OnCycle(f, b) ==
    \/ << b, b >> \in f.edges
    \/ \E c \in DOMAIN f.blocks : << b, c >> \in f.edges /\ << c, b >> \in f.edges

----------------------------------------------------------------------------
(* Lab3: the paths reverse_traverse_cfg returns                            *)

\* the CFG of f is a chain: every block but the last flows into the next
\* one and nowhere else, and the last block alone holds a RET
IsChain(f) ==
    /\ f.edges = {<< b, b + 1 >> : b \in 1..(Len(f.blocks) - 1)}
    /\ \A b \in DOMAIN f.blocks :
           IsRetBlock(f.listing, f.blocks, b) <=> b = Len(f.blocks)

\* C14: for a function whose CFG is a chain of blocks ending in a single
\* return, reverse_traverse_cfg yields exactly one path, and that path is
\* START followed by all instructions of the function in address order.
C14_ChainHasOneStartPath ==
    (TravReturned /\ IsChain(func)) =>
        trav.all_instructions
            = << << START >> \o Ascending(1, Len(func.listing)) >>

\* C17: no block occurs more often than the unroll limit on a saved path,
\* and the visit count every call in progress holds for a block is the
\* number of times the block occurs on the call's partial path: no count
\* comes from a sibling branch or from the traversal of another return block.
C17_CountsArePerPath ==
    /\ \A i \in DOMAIN trav.paths : \A b \in DOMAIN func.blocks :
           Visits(trav.paths[i], b) <= DefaultLoopLimit
    /\ \A k \in DOMAIN trav.stack : \A b \in DOMAIN func.blocks :
           trav.stack[k].visited[b] = Visits(trav.stack[k].new_path, b)

\* C21: for every return block the reverse traversal saves at least one
\* path that ends at it, also when the entry block cannot be reached
\* backward from the return block, a cycle in which every block has a
\* predecessor included.
C21_PathForEveryReturnBlock ==
    TravReturned =>
        \A r \in find_ret_blocks(func) :
            \E i \in DOMAIN trav.paths : Last(trav.paths[i]) = r

\* the block sequence path runs from the entry block to a return block along
\* CFG edges, and the entry block occurs at its head only
IsEntryToReturnPath(f, path) ==
    /\ path # << >>
    /\ Head(path) = EntryBlock(f)
    /\ Last(path) \in find_ret_blocks(f)
    /\ \A k \in 1..(Len(path) - 1) : << path[k], path[k + 1] >> \in f.edges
    /\ \A k \in 2..Len(path) : path[k] # EntryBlock(f)

\* C23: every path reverse_traverse_cfg returns is well formed: its
\* instruction sequence begins with START, its first block is the entry
\* block, its last block a return block, consecutive blocks are joined by a
\* CFG edge, and the entry block does not occur again.
C23_WellFormedPaths ==
    TravReturned =>
        \A i \in DOMAIN trav.paths :
            /\ trav.all_instructions[i] # << >>
            /\ Head(trav.all_instructions[i]) = START
            /\ IsEntryToReturnPath(func, trav.paths[i])

\* the blocks reachable from the blocks S along at most n more edges
RECURSIVE ReachableFrom(_, _, _)
ReachableFrom(f, S, n) ==
    IF n = 0 THEN S
    ELSE ReachableFrom(f, S \cup {e[2] : e \in {d \in f.edges : d[1] \in S}}, n - 1)

EveryBlockReachable(f) ==
    ReachableFrom(f, {EntryBlock(f)}, Cardinality(DOMAIN f.blocks)) = DOMAIN f.blocks

============================================================================
